---- MODULE Spec2Model ----
(***************************************************************************)
(* Smart-Audio: the pipeline orchestrator process_audio_file (src/app.py)  *)
(* and the collaborators it drives, with Translator.translate              *)
(* (src/translation/translator.py) modelled statement by statement.        *)
(*                                                                         *)
(* Texts are sequences of one-character strings; paths are records         *)
(* [dir, name] where dir is the sequence of directory components and name  *)
(* the sequence of tags the file name is built from.                       *)
(***************************************************************************)
EXTENDS Integers, Sequences, FiniteSets, TLC

\* ------------------------------------------------------------------ bounds

\* longest text (transcript, summary) the model enumerates
MaxLen == 2

\* largest configured retry_attempts the model enumerates
MaxRetry == 3

\* ------------------------------------------------------------------- texts

\* the characters of a summary: a space, a letter, a sentence end
Chars == {" ", "a", "."}

\* the characters of a transcript: a space and a letter
TranscriptChars == {" ", "a"}

RECURSIVE TextsUpTo(_, _)
TextsUpTo(chars, n) ==
    IF n = 0 THEN {<<>>}
    ELSE LET shorter == TextsUpTo(chars, n - 1)
         IN  shorter \cup {Append(t, c) : t \in {u \in shorter : Len(u) = n - 1}, c \in chars}

Texts == TextsUpTo(Chars, MaxLen)

\* the value Python's None, kept apart from every text
NoneText == <<"None">>

IsSpace(c) == c = " "

RECURSIVE LStrip(_)
LStrip(t) == IF t # <<>> /\ IsSpace(Head(t)) THEN LStrip(Tail(t)) ELSE t

RECURSIVE RStrip(_)
RStrip(t) ==
    IF t # <<>> /\ IsSpace(t[Len(t)]) THEN RStrip(SubSeq(t, 1, Len(t) - 1)) ELSE t

\* str.strip()
Strip(t) == RStrip(LStrip(t))

StrippedTexts == {Strip(t) : t \in Texts}

\* " ".join(parts)
RECURSIVE JoinSpace(_)
JoinSpace(parts) ==
    IF parts = <<>> THEN <<>>
    ELSE IF Len(parts) = 1 THEN parts[1]
    ELSE parts[1] \o <<" ">> \o JoinSpace(Tail(parts))

Range(s) == {s[i] : i \in 1..Len(s)}

\* ------------------------------------------------------------------- paths

BASE_DIR == <<"base">>
TEMP_DIR == BASE_DIR \o <<"temp">>
OUTPUT_DIR == BASE_DIR \o <<"output">>

\* Path.parent
Parent(p) == p.dir

\* Path.parents: every ancestor directory, the parent included, the root last
Parents(p) == {SubSeq(p.dir, 1, k) : k \in 0..Len(p.dir)}

\* where the file really is: under the temp directory or not
UnderTemp(p) ==
    /\ Len(p.dir) >= Len(TEMP_DIR)
    /\ SubSeq(p.dir, 1, Len(TEMP_DIR)) = TEMP_DIR

\* the uploaded file the run is started on
AudioPath == [dir |-> OUTPUT_DIR \o <<"uploads">>, name |-> <<"a">>]

NoPath == [dir |-> <<>>, name |-> <<>>]

\* --------------------------------------------------------------- variables

VARIABLES
    \* arguments of process_audio_file and the state of the file system
    target_language, output_format, files,
    \* configuration read by the components
    retry_attempts, tr_chunk_size, sum_chunk_size,
    \* position and locals of process_audio_file
    pc, error, temp_files, converted_path, cleaned_path, original_text,
    summary, translated_summary, output_path, safe_temp, result,
    \* what the run has done so far
    calls, returned, delete_requested, log,
    \* the frame of Translator.translate
    tr_pc, tr_text, tr_chunks, tr_done, tr_attempt, tr_hist, tr_result, tr_error

args == <<target_language, output_format>>
config == <<retry_attempts, tr_chunk_size, sum_chunk_size>>
locals == <<temp_files, converted_path, cleaned_path, original_text, summary,
            translated_summary, output_path, safe_temp, result>>
trvars == <<tr_pc, tr_text, tr_chunks, tr_done, tr_attempt, tr_hist, tr_result, tr_error>>
pipevars == <<args, config, files, pc, error, locals, calls, returned,
              delete_requested, log, trvars>>

VARIABLES
    \* a Summarizer instance and the frame of Summarizer.summarize
    use_openai, su_client, su_pc, su_text, su_tried, su_result, su_calls

suvars == <<use_openai, su_client, su_pc, su_text, su_tried, su_result, su_calls>>

VARIABLES
    \* the file system an AudioCleaner works on and the frame of clean_audio
    cl_fs, cl_fs0, cl_pc, cl_input, cl_output, cl_audio, cl_applied, cl_error, cl_calls

clvars == <<cl_fs, cl_fs0, cl_pc, cl_input, cl_output, cl_audio, cl_applied, cl_error, cl_calls>>

VARIABLES
    \* two process_audio_file runs side by side: position, input, the
    \* intermediate paths, the files each created and each read
    cc_pc, cc_input, cc_converted, cc_cleaned, cc_created, cc_read

ccvars == <<cc_pc, cc_input, cc_converted, cc_cleaned, cc_created, cc_read>>

VARIABLES
    \* one call of a signal primitive of AudioCleaner: its position, which
    \* primitive, its arguments and its result
    sg_pc, sg_op, sg_audio, sg_db, sg_gate, sg_sr, sg_out, sg_gated

sgvars == <<sg_pc, sg_op, sg_audio, sg_db, sg_gate, sg_sr, sg_out, sg_gated>>

VARIABLES
    \* the output directory an OutputWriter writes to and the frame of
    \* save_summary
    wr_pc, wr_format, wr_now, wr_timestamp, wr_fs, wr_fs0, wr_written, wr_result, wr_error, wr_calls

wrvars == <<wr_pc, wr_format, wr_now, wr_timestamp, wr_fs, wr_fs0, wr_written, wr_result, wr_error, wr_calls>>

VARIABLES
    \* the frame of Summarizer.chunk_and_summarize: the splitting loop and the
    \* loop over the chunks
    sp_pc, sp_text, sp_chunk_size, sp_start, sp_pieces, sp_summarized

spvars == <<sp_pc, sp_text, sp_chunk_size, sp_start, sp_pieces, sp_summarized>>

VARIABLES
    \* the summarization step of process_audio_file on one Summarizer instance:
    \* its arguments, the chunks, the partial summaries, the styles passed to
    \* summarize, and the remote calls that failed or followed a failure
    ch_pc, ch_requested, ch_style, ch_text, ch_max_length, ch_chunks, ch_partials, ch_result, ch_styles, ch_failed, ch_after, ch_runs

chvars == <<ch_pc, ch_requested, ch_style, ch_text, ch_max_length, ch_chunks, ch_partials, ch_result, ch_styles, ch_failed, ch_after, ch_runs>>

VARIABLES
    \* the temp directory and the frame of WhisperTranscriber.transcribe_chunk
    tc_pc, tc_start, tc_end, tc_fs, tc_error, tc_calls

tcvars == <<tc_pc, tc_start, tc_end, tc_fs, tc_error, tc_calls>>

VARIABLES
    \* the frame of AudioCleaner._reduce_noise by lengths: samples in, frames
    \* of the spectrogram, samples out
    fr_pc, fr_len, fr_frames, fr_out

frvars == <<fr_pc, fr_len, fr_frames, fr_out>>

VARIABLES
    \* the frame of AudioCleaner.enhance_speech: its arguments, the
    \* pre-emphasised samples, the magnitudes before and after the subtraction
    en_pc, en_audio, en_sr, en_emphasized, en_magnitude, en_subtracted

envars == <<en_pc, en_audio, en_sr, en_emphasized, en_magnitude, en_subtracted>>

\* the components process_audio_file does not step through statement by statement
compvars == <<suvars, clvars, ccvars, sgvars, wrvars, spvars, chvars, tcvars, frvars, envars>>

\* what each component leaves alone
notsu == <<pipevars, clvars, ccvars, sgvars, wrvars, spvars, chvars, tcvars, frvars, envars>>
notcl == <<pipevars, suvars, ccvars, sgvars, wrvars, spvars, chvars, tcvars, frvars, envars>>
notcc == <<pipevars, suvars, clvars, sgvars, wrvars, spvars, chvars, tcvars, frvars, envars>>
notsg == <<pipevars, suvars, clvars, ccvars, wrvars, spvars, chvars, tcvars, frvars, envars>>
notwr == <<pipevars, suvars, clvars, ccvars, sgvars, spvars, chvars, tcvars, frvars, envars>>
notsp == <<pipevars, suvars, clvars, ccvars, sgvars, wrvars, chvars, tcvars, frvars, envars>>
notch == <<pipevars, suvars, clvars, ccvars, sgvars, wrvars, spvars, tcvars, frvars, envars>>
notchsu == <<pipevars, clvars, ccvars, sgvars, wrvars, spvars, tcvars, frvars, envars>>
nottc == <<pipevars, suvars, clvars, ccvars, sgvars, wrvars, spvars, chvars, frvars, envars>>
notfr == <<pipevars, suvars, clvars, ccvars, sgvars, wrvars, spvars, chvars, tcvars, envars>>
noten == <<pipevars, suvars, clvars, ccvars, sgvars, wrvars, spvars, chvars, tcvars, frvars>>

\* the frame of Summarizer.summarize, without the fields of the instance
suframe == <<su_pc, su_text, su_tried, su_result, su_calls>>

vars == <<pipevars, compvars>>

\* no Summarizer.summarize call is in progress
SuIdle ==
    /\ use_openai = FALSE
    /\ su_client = FALSE
    /\ su_pc = "idle"
    /\ su_text = <<>>
    /\ su_tried = <<>>
    /\ su_result = <<>>
    /\ su_calls = 0

\* no sample buffer
NoBuffer == [kind |-> "none", hist |-> <<>>]

\* no AudioCleaner.clean_audio call is in progress
ClIdle ==
    /\ cl_fs = <<>>
    /\ cl_fs0 = <<>>
    /\ cl_pc = "idle"
    /\ cl_input = NoPath
    /\ cl_output = NoPath
    /\ cl_audio = NoBuffer
    /\ cl_applied = <<>>
    /\ cl_error = "none"
    /\ cl_calls = 0

\* no two runs side by side
CcIdle ==
    /\ cc_pc = <<>>
    /\ cc_input = <<>>
    /\ cc_converted = <<>>
    /\ cc_cleaned = <<>>
    /\ cc_created = <<>>
    /\ cc_read = <<>>

\* a scaled buffer: the samples times the square root of num/den
Scaled(samples, num, den) == [samples |-> samples, num |-> num, den |-> den]

\* the argument of the spectral gate: whether the buffer is empty, and its
\* spectrogram
GateInput(empty, stft) == [empty |-> empty, stft |-> stft]

\* no primitive is being called
SgIdle ==
    /\ sg_pc = "idle"
    /\ sg_op = "none"
    /\ sg_audio = <<>>
    /\ sg_db = 0
    /\ sg_gate = GateInput(FALSE, <<>>)
    /\ sg_sr = 0
    /\ sg_out = Scaled(<<>>, 1, 1)
    /\ sg_gated = <<>>

\* no OutputWriter.save_summary call is in progress
WrIdle ==
    /\ wr_pc = "idle"
    /\ wr_format = "txt"
    /\ wr_now = 1
    /\ wr_timestamp = 1
    /\ wr_fs = {}
    /\ wr_fs0 = {}
    /\ wr_written = {}
    /\ wr_result = NoPath
    /\ wr_error = "none"
    /\ wr_calls = 0

\* no chunk_and_summarize call is being split
SpIdle ==
    /\ sp_pc = "idle"
    /\ sp_text = <<>>
    /\ sp_chunk_size = 1
    /\ sp_start = 0
    /\ sp_pieces = <<>>
    /\ sp_summarized = <<>>

\* no summarization step is in progress
ChIdle ==
    /\ ch_pc = "idle"
    /\ ch_requested = "concise"
    /\ ch_style = "concise"
    /\ ch_text = <<>>
    /\ ch_max_length = 1
    /\ ch_chunks = <<>>
    /\ ch_partials = <<>>
    /\ ch_result = <<>>
    /\ ch_styles = <<>>
    /\ ch_failed = 0
    /\ ch_after = 0
    /\ ch_runs = 0

\* no transcribe_chunk call is in progress
TcIdle ==
    /\ tc_pc = "idle"
    /\ tc_start = 0
    /\ tc_end = 0
    /\ tc_fs = {}
    /\ tc_error = "none"
    /\ tc_calls = 0

\* no _reduce_noise call is being measured
FrIdle ==
    /\ fr_pc = "idle"
    /\ fr_len = 0
    /\ fr_frames = 0
    /\ fr_out = 0

\* no enhance_speech call is in progress
EnIdle ==
    /\ en_pc = "idle"
    /\ en_audio = <<>>
    /\ en_sr = 0
    /\ en_emphasized = <<>>
    /\ en_magnitude = <<>>
    /\ en_subtracted = <<>>

ComponentsIdle == SuIdle /\ ClIdle /\ CcIdle /\ SgIdle /\ WrIdle /\ SpIdle /\ ChIdle /\ TcIdle /\ FrIdle /\ EnIdle

\* ----------------------------------------------------------- configuration

\* TRANSLATION_SETTINGS["supported_languages"], two of its twelve codes
SupportedLanguages == {"en", "es"}

\* the codes a caller may pass: a supported one and an unknown one
LanguageCodes == {"en", "xx"}

\* the formats a caller may pass: the three known ones and an unknown one
OutputFormats == {"txt", "pdf", "json", "docx"}

\* the chunk sizes a configuration may hold: one that splits the longer
\* texts and one that splits none
ChunkSizes == {1, MaxLen}

\* OUTPUT_SETTINGS["include_timestamps"]
IncludeTimestamps == TRUE

\* the methods class OutputWriter defines
OutputWriterMethods == {"save_summary", "_save_as_txt", "_save_as_pdf", "_save_as_json"}

\* attribute lookup on the writer: a missing name raises AttributeError
HasMethod(m) == m \in OutputWriterMethods

\* ------------------------------------------------------------- translator

IsSentenceEnd(c) == c \in {".", "!", "?"}

\* re.split(r'([.!?]+)', text): text pieces and punctuation runs, alternating
RECURSIVE ReSplitFrom(_, _, _, _)
ReSplitFrom(rest, cur, inPunct, acc) ==
    IF rest = <<>>
    THEN IF inPunct THEN acc \o <<cur, <<>>>> ELSE Append(acc, cur)
    ELSE LET c == Head(rest)
         IN  IF IsSentenceEnd(c) = inPunct
             THEN ReSplitFrom(Tail(rest), Append(cur, c), inPunct, acc)
             ELSE ReSplitFrom(Tail(rest), <<c>>, ~inPunct, Append(acc, cur))

ReSplit(text) == ReSplitFrom(text, <<>>, FALSE, <<>>)

\* the loop of _split_text_into_chunks over sentences[i], sentences[i + 1]
RECURSIVE GroupFrom(_, _, _, _, _)
GroupFrom(sentences, i, current, chunks, size) ==
    IF i > Len(sentences)
    THEN IF Strip(current) # <<>> THEN Append(chunks, Strip(current)) ELSE chunks
    ELSE LET sentence == sentences[i]
             punctuation == IF i + 1 <= Len(sentences) THEN sentences[i + 1] ELSE <<>>
             piece == sentence \o punctuation
         IN  IF Len(current \o piece) > size /\ current # <<>>
             THEN GroupFrom(sentences, i + 2, piece, Append(chunks, Strip(current)), size)
             ELSE GroupFrom(sentences, i + 2, current \o piece, chunks, size)

SplitTextIntoChunks(text, size) == GroupFrom(ReSplit(text), 1, <<>>, <<>>, size)

\* what the translation backend can answer for one chunk
BackendResults == {<<"t">>, <<"u">>}

\* one pass of the retry loop: the backend answers, the backend call fails,
\* or the client cannot be constructed (no backend call is made)
AttemptOutcomes(attempt) ==
    {[out |-> "ok", called |-> TRUE, val |-> v, err |-> "none", attempt |-> attempt] :
        v \in BackendResults}
    \cup {[out |-> "fail", called |-> TRUE, val |-> <<>>, err |-> "RequestError",
           attempt |-> attempt],
          [out |-> "fail", called |-> FALSE, val |-> <<>>, err |-> "LanguageNotSupported",
           attempt |-> attempt]}

\* for attempt in range(self.retry_attempts)
AttemptsLeft(attempt, n) == attempt < n

\* the test of the last attempt, one too far: the loop ends without raising
IsLastAttemptOffByOne(attempt, n) == attempt = n

\* if attempt == self.retry_attempts - 1: raise
IsLastAttempt(attempt, n) == attempt = n - 1

NoError == [kind |-> "none", attempt |-> -1]

\* Translator.translate up to the dispatch on the text's length
TrCheck ==
    /\ tr_pc = "check"
    /\ IF Strip(tr_text) = <<>>
       THEN /\ tr_pc' = "returned"
            /\ tr_result' = <<>>
            /\ UNCHANGED <<tr_chunks, tr_error>>
       ELSE IF target_language \notin SupportedLanguages
       THEN /\ tr_pc' = "raised"
            /\ tr_error' = [kind |-> "UnsupportedLanguage", attempt |-> -1]
            /\ UNCHANGED <<tr_chunks, tr_result>>
       ELSE LET chunks == IF Len(tr_text) > tr_chunk_size
                          THEN SplitTextIntoChunks(tr_text, tr_chunk_size)
                          ELSE <<tr_text>>
            IN  /\ tr_chunks' = chunks
                /\ tr_pc' = IF chunks = <<>> THEN "returned" ELSE "attempt"
                /\ tr_result' = IF chunks = <<>> THEN <<>> ELSE tr_result
                /\ UNCHANGED tr_error
    /\ tr_done' = <<>>
    /\ tr_attempt' = 0
    /\ tr_hist' = <<<<>>>>
    /\ UNCHANGED <<args, config, files, pc, error, locals, calls, returned,
                   delete_requested, log, tr_text>>
    /\ UNCHANGED compvars

\* _translate_chunk returns v for the chunk at the head of tr_chunks
ChunkReturns(v, hist) ==
    /\ tr_done' = Append(tr_done, v)
    /\ tr_attempt' = 0
    /\ UNCHANGED tr_error
    /\ IF Len(tr_chunks) = 1
       THEN /\ tr_pc' = "returned"
            /\ tr_result' = JoinSpace(tr_done')
            /\ tr_hist' = hist
            /\ UNCHANGED tr_chunks
       ELSE /\ tr_chunks' = Tail(tr_chunks)
            /\ tr_hist' = Append(hist, <<>>)
            /\ UNCHANGED <<tr_pc, tr_result>>

\* one pass of the loop of _translate_chunk, or its end
TrAttempt ==
    /\ tr_pc = "attempt"
    /\ LET k == Len(tr_hist)
       IN  IF AttemptsLeft(tr_attempt, retry_attempts)
           THEN \E o \in AttemptOutcomes(tr_attempt) :
                  LET hist == [tr_hist EXCEPT ![k] = Append(@, o)]
                  IN  IF o.out = "ok"
                      THEN ChunkReturns(o.val, hist)
                      ELSE /\ tr_hist' = hist
                           /\ IF IsLastAttempt(tr_attempt, retry_attempts)
                              THEN /\ tr_pc' = "raised"
                                   /\ tr_error' = [kind |-> o.err, attempt |-> tr_attempt]
                                   /\ UNCHANGED tr_attempt
                              ELSE /\ tr_attempt' = tr_attempt + 1
                                   /\ UNCHANGED <<tr_pc, tr_error>>
                           /\ UNCHANGED <<tr_chunks, tr_done, tr_result>>
           ELSE ChunkReturns(NoneText, tr_hist)
    /\ UNCHANGED <<args, config, files, pc, error, locals, calls, returned,
                   delete_requested, log, tr_text>>
    /\ UNCHANGED compvars

\* ------------------------------------------------------------ collaborators

\* AudioConverter.convert_to_wav: the canonical file it produces, in the temp
\* directory, in a directory below it, or beside the input
ConvertTargets(p) ==
    {[dir |-> d, name |-> Append(p.name, "converted")] :
        d \in {TEMP_DIR, TEMP_DIR \o <<"cache">>, p.dir}}

\* AudioCleaner.clean_audio: TEMP_DIR / f"{input_path.stem}_cleaned.wav"
CleanedPath(p) == [dir |-> TEMP_DIR, name |-> Append(p.name, "cleaned")]

\* AudioCleaner.clean_audio: it returns, it raises before the output is
\* opened, or it raises while the output is written
CleanOutcomes == {"ok", "fail_before_write", "fail_in_write"}

\* WhisperTranscriber.transcribe: full_text = result["text"].strip()
TranscribeResults == {Strip(t) : t \in TextsUpTo(TranscriptChars, MaxLen)}

\* Summarizer.summarize: "" for a blank text, else the stripped answer of the
\* remote model, of the local model or of the extractive fallback
SummarizeResults(text) == IF Strip(text) = <<>> THEN {<<>>} ELSE StrippedTexts

\* Summarizer.chunk_and_summarize: "" for a blank text, else the stripped
\* join of the partial summaries, or its tightened summary
ChunkAndSummarizeResults(text) == IF Strip(text) = <<>> THEN {<<>>} ELSE StrippedTexts

\* OutputWriter._save_as_*: self.output_dir / f"summary_{timestamp}.<ext>"
SummaryPath(fmt) == [dir |-> OUTPUT_DIR, name |-> <<"summary", fmt>>]

\* a save_summary whose dispatch ends in a default branch that writes
SaveOutcomesAnyFormat(fmt) == {[ok |-> TRUE, err |-> "none", opened |-> TRUE]}

\* OutputWriter.save_summary: an unknown format raises before any file is
\* opened; a known one returns with the file written, raises before the file
\* is opened, or (txt, json) raises inside the with-block that holds it open
SaveOutcomes(fmt) ==
    IF fmt \notin {"txt", "pdf", "json"}
    THEN {[ok |-> FALSE, err |-> "UnsupportedFormat", opened |-> FALSE]}
    ELSE {[ok |-> TRUE, err |-> "none", opened |-> TRUE],
          [ok |-> FALSE, err |-> "WriteError", opened |-> FALSE]}
         \cup (IF fmt \in {"txt", "json"}
               THEN {[ok |-> FALSE, err |-> "WriteError", opened |-> TRUE]}
               ELSE {})

\* ------------------------------------------------------ process_audio_file

\* the statements in another order: translation before summarization
NextStageSwapped(s) ==
    CASE s = "start" -> "convert"
      [] s = "convert" -> "register_converted"
      [] s = "register_converted" -> "clean"
      [] s = "clean" -> "register_cleaned"
      [] s = "register_cleaned" -> "transcribe"
      [] s = "transcribe" -> "timestamps"
      [] s = "timestamps" -> "translate"
      [] s = "translate" -> "summarize"
      [] s = "summarize" -> "write"
      [] s = "write" -> "cleanup"
      [] s = "cleanup" -> "return"
      [] s = "return" -> "done"

\* the statement that follows statement s when s completes
NextStage(s) ==
    CASE s = "start" -> "convert"
      [] s = "convert" -> "register_converted"
      [] s = "register_converted" -> "clean"
      [] s = "clean" -> "register_cleaned"
      [] s = "register_cleaned" -> "transcribe"
      [] s = "transcribe" -> "timestamps"
      [] s = "timestamps" -> "summarize"
      [] s = "summarize" -> "translate"
      [] s = "translate" -> "write"
      [] s = "write" -> "cleanup"
      [] s = "cleanup" -> "return"
      [] s = "return" -> "done"

\* the append forgotten
RegisterNothing(registry, p) == registry

\* temp_files.append(path)
Register(registry, p) == Append(registry, p)

\* the filter testing the base directory instead of the temp directory
IsSafeTempUnderBase(p) == BASE_DIR \in Parents(p) \/ Parent(p) = BASE_DIR

\* if TEMP_DIR in p.parents or p.parent == TEMP_DIR
IsSafeTemp(p) == TEMP_DIR \in Parents(p) \/ Parent(p) = TEMP_DIR

\* the handler re-raising what the cleanup raised
AfterCleanupReraise(raised) == IF raised THEN "failed" ELSE "return"

\* the statement reached after the try/except around the cleanup
AfterCleanup(raised) == NextStage("cleanup")

\* an exception of a stage leaves process_audio_file
Raise(err) ==
    /\ pc' = "failed"
    /\ error' = err

Init ==
    /\ target_language \in LanguageCodes
    /\ output_format \in OutputFormats
    /\ files \in {{}, {AudioPath}}
    /\ retry_attempts \in 1..MaxRetry
    /\ tr_chunk_size \in ChunkSizes
    /\ sum_chunk_size \in ChunkSizes
    /\ pc = "start"
    /\ error = "none"
    /\ temp_files = <<>>
    /\ converted_path = NoPath
    /\ cleaned_path = NoPath
    /\ original_text = <<>>
    /\ summary = <<>>
    /\ translated_summary = <<>>
    /\ output_path = NoPath
    /\ safe_temp = <<>>
    /\ result = NoPath
    /\ calls = <<>>
    /\ returned = <<>>
    /\ delete_requested = {}
    /\ log = {}
    /\ tr_pc = "idle"
    /\ tr_text = <<>>
    /\ tr_chunks = <<>>
    /\ tr_done = <<>>
    /\ tr_attempt = 0
    /\ tr_hist = <<<<>>>>
    /\ tr_result = <<>>
    /\ tr_error = NoError
    /\ ComponentsIdle

\* the existence check and the construction of the six components
Start ==
    /\ pc = "start"
    /\ IF AudioPath \notin files
       THEN Raise("FileNotFoundError")
       ELSE \E loaded \in BOOLEAN :
              IF loaded
              THEN pc' = NextStage("start") /\ UNCHANGED error
              ELSE Raise("ModelLoadError")
    /\ UNCHANGED <<args, config, files, locals, calls, returned,
                   delete_requested, log, trvars>>
    /\ UNCHANGED compvars

\* converted_path = converter.convert_to_wav(audio_path)
Convert ==
    /\ pc = "convert"
    /\ calls' = Append(calls, "convert")
    /\ \E ok \in BOOLEAN :
         IF ok
         THEN \E p \in ConvertTargets(AudioPath) :
                /\ converted_path' = p
                /\ files' = files \cup {p}
                /\ returned' = Append(returned, "convert")
                /\ pc' = NextStage("convert")
                /\ UNCHANGED error
         ELSE /\ Raise("InvalidInputError")
              /\ UNCHANGED <<converted_path, files, returned>>
    /\ UNCHANGED <<args, config, temp_files, cleaned_path, original_text, summary,
                   translated_summary, output_path, safe_temp, result,
                   delete_requested, log, trvars>>
    /\ UNCHANGED compvars

\* temp_files.append(converted_path)
RegisterConverted ==
    /\ pc = "register_converted"
    /\ temp_files' = Register(temp_files, converted_path)
    /\ pc' = NextStage("register_converted")
    /\ UNCHANGED <<args, config, files, error, converted_path, cleaned_path,
                   original_text, summary, translated_summary, output_path,
                   safe_temp, result, calls, returned, delete_requested, log, trvars>>
    /\ UNCHANGED compvars

\* cleaned_path = cleaner.clean_audio(converted_path)
Clean ==
    /\ pc = "clean"
    /\ calls' = Append(calls, "clean")
    /\ IF converted_path \notin files
       THEN /\ Raise("FileNotFoundError")
            /\ UNCHANGED <<cleaned_path, files, returned>>
       ELSE \E o \in CleanOutcomes :
              IF o = "ok"
              THEN /\ cleaned_path' = CleanedPath(converted_path)
                   /\ files' = files \cup {CleanedPath(converted_path)}
                   /\ returned' = Append(returned, "clean")
                   /\ pc' = NextStage("clean")
                   /\ UNCHANGED error
              ELSE /\ Raise("CleaningError")
                   /\ files' = IF o = "fail_in_write"
                               THEN files \cup {CleanedPath(converted_path)}
                               ELSE files
                   /\ UNCHANGED <<cleaned_path, returned>>
    /\ UNCHANGED <<args, config, temp_files, converted_path, original_text, summary,
                   translated_summary, output_path, safe_temp, result,
                   delete_requested, log, trvars>>
    /\ UNCHANGED compvars

\* temp_files.append(cleaned_path)
RegisterCleaned ==
    /\ pc = "register_cleaned"
    /\ temp_files' = Register(temp_files, cleaned_path)
    /\ pc' = NextStage("register_cleaned")
    /\ UNCHANGED <<args, config, files, error, converted_path, cleaned_path,
                   original_text, summary, translated_summary, output_path,
                   safe_temp, result, calls, returned, delete_requested, log, trvars>>
    /\ UNCHANGED compvars

\* transcript = transcriber.transcribe(cleaned_path)
\* original_text = transcript.full_text or ""
Transcribe ==
    /\ pc = "transcribe"
    /\ calls' = Append(calls, "transcribe")
    /\ IF cleaned_path \notin files
       THEN /\ Raise("FileNotFoundError")
            /\ UNCHANGED <<original_text, returned>>
       ELSE \E ok \in BOOLEAN :
              IF ok
              THEN \E t \in TranscribeResults :
                     /\ original_text' = t
                     /\ returned' = Append(returned, "transcribe")
                     /\ pc' = NextStage("transcribe")
                     /\ UNCHANGED error
              ELSE /\ Raise("TranscriptionError")
                   /\ UNCHANGED <<original_text, returned>>
    /\ UNCHANGED <<args, config, files, temp_files, converted_path, cleaned_path,
                   summary, translated_summary, output_path, safe_temp, result,
                   delete_requested, log, trvars>>
    /\ UNCHANGED compvars

\* the guarded writer.save_transcript_with_timestamps(transcript): the writer
\* has no such method, the AttributeError is caught and logged
Timestamps ==
    /\ pc = "timestamps"
    /\ log' = IF IncludeTimestamps /\ ~HasMethod("save_transcript_with_timestamps")
              THEN log \cup {"timestamps_failed"}
              ELSE log
    /\ pc' = NextStage("timestamps")
    /\ UNCHANGED <<args, config, files, error, locals, calls, returned,
                   delete_requested, trvars>>
    /\ UNCHANGED compvars

\* the summarization stage: chunked above chunk_size, in one call otherwise
Summarize ==
    /\ pc = "summarize"
    /\ calls' = Append(calls, "summarize")
    /\ \E s \in (IF Len(original_text) > sum_chunk_size
                 THEN ChunkAndSummarizeResults(original_text)
                 ELSE SummarizeResults(original_text)) :
         summary' = s
    /\ returned' = Append(returned, "summarize")
    /\ pc' = NextStage("summarize")
    /\ UNCHANGED <<args, config, files, error, temp_files, converted_path,
                   cleaned_path, original_text, translated_summary, output_path,
                   safe_temp, result, delete_requested, log, trvars>>
    /\ UNCHANGED compvars

\* translator.translate(summary, target_language) is entered
TranslateCall ==
    /\ pc = "translate"
    /\ tr_pc = "idle"
    /\ calls' = Append(calls, "translate")
    /\ tr_pc' = "check"
    /\ tr_text' = summary
    /\ UNCHANGED <<args, config, files, pc, error, locals, returned,
                   delete_requested, log, tr_chunks, tr_done, tr_attempt,
                   tr_hist, tr_result, tr_error>>
    /\ UNCHANGED compvars

\* translated_summary = the value translate returned
TranslateReturn ==
    /\ pc = "translate"
    /\ tr_pc = "returned"
    /\ translated_summary' = tr_result
    /\ returned' = Append(returned, "translate")
    /\ pc' = NextStage("translate")
    /\ UNCHANGED <<args, config, files, error, temp_files, converted_path,
                   cleaned_path, original_text, summary, output_path, safe_temp,
                   result, calls, delete_requested, log, trvars>>
    /\ UNCHANGED compvars

\* translate raised: the error leaves process_audio_file
TranslateRaise ==
    /\ pc = "translate"
    /\ tr_pc = "raised"
    /\ Raise(tr_error.kind)
    /\ UNCHANGED <<args, config, files, locals, calls, returned,
                   delete_requested, log, trvars>>
    /\ UNCHANGED compvars

\* output_path = writer.save_summary(...)
Write ==
    /\ pc = "write"
    /\ calls' = Append(calls, "write")
    /\ \E o \in SaveOutcomes(output_format) :
         /\ files' = IF o.opened THEN files \cup {SummaryPath(output_format)} ELSE files
         /\ IF o.ok
            THEN /\ output_path' = SummaryPath(output_format)
                 /\ returned' = Append(returned, "write")
                 /\ pc' = NextStage("write")
                 /\ UNCHANGED error
            ELSE /\ Raise(o.err)
                 /\ UNCHANGED <<output_path, returned>>
    /\ UNCHANGED <<args, config, temp_files, converted_path, cleaned_path,
                   original_text, summary, translated_summary, safe_temp, result,
                   delete_requested, log, trvars>>
    /\ UNCHANGED compvars

\* the try/except around the temp-file cleanup: the registered paths are
\* filtered, then writer.cleanup_temp_files is looked up; the writer has no
\* such method, the AttributeError is caught and logged
Cleanup ==
    /\ pc = "cleanup"
    /\ safe_temp' = SelectSeq(temp_files, IsSafeTemp)
    /\ LET raised == ~HasMethod("cleanup_temp_files")
       IN  /\ delete_requested' = IF raised THEN delete_requested
                                  ELSE delete_requested \cup Range(safe_temp')
           /\ log' = IF raised THEN log \cup {"cleanup_failed"} ELSE log
           /\ pc' = AfterCleanup(raised)
           /\ error' = IF AfterCleanup(raised) = "failed" THEN "CleanupError" ELSE error
    /\ UNCHANGED <<args, config, files, temp_files, converted_path, cleaned_path,
                   original_text, summary, translated_summary, output_path,
                   result, calls, returned, trvars>>
    /\ UNCHANGED compvars

\* return output_path
Return ==
    /\ pc = "return"
    /\ result' = output_path
    /\ pc' = NextStage("return")
    /\ UNCHANGED <<args, config, files, error, temp_files, converted_path,
                   cleaned_path, original_text, summary, translated_summary,
                   output_path, safe_temp, calls, returned, delete_requested,
                   log, trvars>>
    /\ UNCHANGED compvars

Next ==
    \/ Start
    \/ Convert
    \/ RegisterConverted
    \/ Clean
    \/ RegisterCleaned
    \/ Transcribe
    \/ Timestamps
    \/ Summarize
    \/ TranslateCall
    \/ TrCheck
    \/ TrAttempt
    \/ TranslateReturn
    \/ TranslateRaise
    \/ Write
    \/ Cleanup
    \/ Return

Spec == Init /\ [][Next]_vars

\* ------------------------------------------------------------------ claims

StageOrder == <<"convert", "clean", "transcribe", "summarize", "translate", "write">>

Terminated == pc \in {"done", "failed"}

\* the files of the run in the output directory
OutputFiles == {f \in files : f.dir = OUTPUT_DIR}

\* C1: the stages are invoked in the order conversion, cleaning,
\* transcription, summarization, translation, writing, each at most once, a
\* stage only after every earlier one has returned, none again after a later one
C1_StagesInFixedOrder ==
    /\ Len(calls) <= Len(StageOrder)
    /\ \A i \in 1..Len(calls) : calls[i] = StageOrder[i]
    /\ Len(returned) <= Len(calls)
    /\ \A i \in 1..Len(returned) : returned[i] = StageOrder[i]
    /\ \A i \in 1..Len(calls) : i > 1 => Len(returned) >= i - 1

C1_Witness == pc = "done" /\ calls = StageOrder /\ returned = StageOrder

\* C2: a transcript whose full text is blank stops the run in the failure
\* state with the no-speech-detected error, and the summarizer, the translator
\* and save_summary are never invoked
C2_NoSpeechStopsRun ==
    ("transcribe" \in Range(returned) /\ Strip(original_text) = <<>>)
        => /\ pc \in {"timestamps", "failed"}
           /\ pc = "failed" => error = "NoSpeechDetectedError"
           /\ Range(calls) \cap {"summarize", "translate", "write"} = {}

\* C3: whenever the run terminates after conversion, by returning or by
\* raising, deletion has been attempted for every registered path under the
\* temp directory
C3_CleanupOnEveryExit ==
    (Terminated /\ "convert" \in Range(returned))
        => \A p \in Range(temp_files) : UnderTemp(p) => p \in delete_requested

\* C4: the cleanup step never requests deletion of a path that is not under
\* the temp directory, whatever was registered
C4_CleanupStaysInTempDir ==
    \A p \in Range(safe_temp) \cup delete_requested : UnderTemp(p)

C4_Witness ==
    /\ pc = "done"
    /\ \E p \in Range(temp_files) : ~UnderTemp(p)
    /\ safe_temp # <<>>
    /\ Len(safe_temp) < Len(temp_files)

\* C5: a failure of the cleanup step never changes the outcome: once the six
\* stages have succeeded the run returns the writer's path, and a cleanup
\* error is logged, never raised
C5_CleanupNeverChangesOutcome ==
    /\ "write" \in Range(returned) => pc # "failed" /\ error = "none"
    /\ pc = "done" => /\ result = output_path
                      /\ result = SummaryPath(output_format)
                      /\ result \in files
    /\ "cleanup_failed" \in log => pc \in {"return", "done"} /\ error = "none"

C5_Witness == pc = "done" /\ "cleanup_failed" \in log /\ result \in OutputFiles

\* C6: when a stage starts, every intermediate file created by the earlier
\* stages is in the temp-file registry: the converted file before the cleaner
\* runs, the cleaned file before the transcriber runs
C6_IntermediateFilesRegistered ==
    /\ (pc \in {"clean", "transcribe", "summarize", "translate", "write"})
           => converted_path # NoPath /\ converted_path \in Range(temp_files)
    /\ (pc \in {"transcribe", "summarize", "translate", "write"})
           => cleaned_path # NoPath /\ cleaned_path \in Range(temp_files)
    /\ (pc \in {"convert", "clean", "transcribe", "summarize", "translate", "write"})
           => (files \ ({AudioPath} \cup OutputFiles)) \subseteq Range(temp_files)

C6_Witness ==
    /\ pc = "transcribe"
    /\ temp_files = <<converted_path, cleaned_path>>
    /\ {converted_path, cleaned_path} \subseteq files

\* C7: when a stage raises, the error reaches the caller, no later stage is
\* invoked and no output file of the run exists in the output directory
C7_NoOutputOnFailure ==
    pc = "failed" => /\ error # "none"
                     /\ Len(calls) <= Len(returned) + 1
                     /\ OutputFiles = {}

\* C8: translate raises the unsupported-language error for every target code
\* outside the supported set, whatever the text, and calls no backend
C8_UnsupportedLanguageAlwaysRaises ==
    (tr_pc \notin {"idle", "check"} /\ target_language \notin SupportedLanguages)
        => /\ tr_pc = "raised"
           /\ tr_error.kind = "UnsupportedLanguage"
           /\ tr_hist = <<<<>>>>

\* C9: a run whose target language is unsupported ends with the
\* unsupported-language error and writes no output file, for every transcript
C9_UnsupportedLanguageRunFails ==
    (target_language \notin SupportedLanguages /\ "translate" \in Range(calls))
        => /\ pc \in {"translate", "failed"}
           /\ pc = "failed" => error = "UnsupportedLanguage"
           /\ OutputFiles = {}

\* C10: with retry_attempts = N >= 1 a chunk costs at most N backend calls;
\* the first success ends the loop and its value is the chunk's value; only N
\* failures raise, with the error of the last attempt; translate returns a
\* string or raises
C10_BoundedRetry ==
    /\ \A k \in 1..Len(tr_hist) :
         LET h == tr_hist[k]
         IN  /\ Len(h) <= retry_attempts
             /\ Cardinality({i \in 1..Len(h) : h[i].called}) <= retry_attempts
             /\ \A i \in 1..Len(h) : h[i].attempt = i - 1
             /\ \A i \in 1..(Len(h) - 1) : h[i].out = "fail"
             /\ k <= Len(tr_done) => /\ h # <<>>
                                     /\ h[Len(h)].out = "ok"
                                     /\ tr_done[k] = h[Len(h)].val
    /\ Len(tr_done) <= Len(tr_hist)
    /\ (tr_pc = "raised" /\ tr_error.kind # "UnsupportedLanguage")
           => LET h == tr_hist[Len(tr_hist)]
              IN  /\ Len(h) = retry_attempts
                  /\ \A i \in 1..Len(h) : h[i].out = "fail"
                  /\ tr_error = [kind |-> h[Len(h)].err, attempt |-> retry_attempts - 1]
    /\ tr_pc = "attempt" => Len(tr_hist[Len(tr_hist)]) < retry_attempts
    /\ tr_pc = "returned" => "None" \notin Range(tr_result)

C10_Witness ==
    /\ tr_pc = "returned"
    /\ retry_attempts > 1
    /\ Len(tr_hist[1]) = retry_attempts
    /\ tr_result # <<>>

\* ===================================================== the components alone

\* process_audio_file is not running
PipelineIdle ==
    /\ target_language = "en"
    /\ output_format = "txt"
    /\ files = {}
    /\ retry_attempts = 1
    /\ tr_chunk_size = 1
    /\ sum_chunk_size = 1
    /\ pc = "idle"
    /\ error = "none"
    /\ temp_files = <<>>
    /\ converted_path = NoPath
    /\ cleaned_path = NoPath
    /\ original_text = <<>>
    /\ summary = <<>>
    /\ translated_summary = <<>>
    /\ output_path = NoPath
    /\ safe_temp = <<>>
    /\ result = NoPath
    /\ calls = <<>>
    /\ returned = <<>>
    /\ delete_requested = {}
    /\ log = {}
    /\ tr_pc = "idle"
    /\ tr_text = <<>>
    /\ tr_chunks = <<>>
    /\ tr_done = <<>>
    /\ tr_attempt = 0
    /\ tr_hist = <<<<>>>>
    /\ tr_result = <<>>
    /\ tr_error = NoError

\* -------------------------------------------------------------- summarizer

\* summarize calls made on one Summarizer instance
MaxCalls == 2

\* SUMMARIZATION_SETTINGS["max_length"]
SummaryMaxLength == 150

\* what the remote model or the local model can answer, stripped
SummaryAnswers == StrippedTexts

\* the errors the remote call can end in: the three API errors and any other
RemoteErrors == {"RateLimitError", "APIStatusError", "APIError", "Exception"}

\* the handlers around the remote call without the catch-all
RemoteHandledApiOnly(kind) == kind \in {"RateLimitError", "APIStatusError", "APIError"}

\* except RateLimitError / APIStatusError / APIError / Exception
RemoteHandled(kind) == kind \in {"RateLimitError", "APIStatusError", "APIError", "Exception"}

\* text[:n]
Prefix(text, n) == SubSeq(text, 1, IF n < Len(text) THEN n ELSE Len(text))

\* ". ".join(parts)
RECURSIVE JoinDotSpace(_)
JoinDotSpace(parts) ==
    IF parts = <<>> THEN <<>>
    ELSE IF Len(parts) = 1 THEN parts[1]
    ELSE parts[1] \o <<".", " ">> \o JoinDotSpace(Tail(parts))

\* [s.strip() for s in re.split(r"[.!?]+", text) if s.strip()]
SentencesOf(text) ==
    LET pieces == ReSplit(text)
        n == (Len(pieces) + 1) \div 2
    IN  SelectSeq([i \in 1..n |-> Strip(pieces[2 * i - 1])], LAMBDA x : x # <<>>)

\* the loop that takes scored sentences while they fit in max_len
RECURSIVE TakeFitting(_, _, _)
TakeFitting(scored, cur, maxLen) ==
    IF scored = <<>> \/ cur + Len(Head(scored)) > maxLen THEN <<>>
    ELSE <<Head(scored)>> \o TakeFitting(Tail(scored), cur + Len(Head(scored)), maxLen)

\* _extractive_summarize: the sentences in the order the score sort leaves
\* them (any order here), joined while they fit; the text when there is none
ExtractiveResults(text, maxLen) ==
    LET sentences == SentencesOf(text)
    IN  IF sentences = <<>> THEN {text}
        ELSE {LET out == TakeFitting([i \in 1..Len(sentences) |-> sentences[f[i]]], 0, maxLen)
              IN  IF out # <<>> THEN JoinDotSpace(out) \o <<".">> ELSE Prefix(text, maxLen) :
                  f \in Permutations(1..Len(sentences))}

\* Summarizer.__init__: the client is built, or the switch is turned off
InitSummarizer ==
    /\ PipelineIdle
    /\ EnIdle
    /\ FrIdle
    /\ TcIdle
    /\ ChIdle
    /\ SpIdle
    /\ WrIdle
    /\ SgIdle
    /\ ClIdle
    /\ CcIdle
    /\ \E built \in BOOLEAN : use_openai = built /\ su_client = built
    /\ su_pc = "idle"
    /\ su_text = <<>>
    /\ su_tried = <<>>
    /\ su_result = <<>>
    /\ su_calls = 0

\* summarize up to the choice of the first strategy
SuCall ==
    /\ su_pc \in {"idle", "returned"}
    /\ su_calls < MaxCalls
    /\ su_calls' = su_calls + 1
    /\ su_tried' = <<>>
    /\ su_result' = <<>>
    /\ \E t \in Texts :
         /\ su_text' = t
         /\ su_pc' = IF Strip(t) = <<>> THEN "returned"
                     ELSE IF use_openai /\ su_client THEN "remote" ELSE "local"
    /\ UNCHANGED <<use_openai, su_client, notsu>>

\* the remote call and its handlers
SuRemote ==
    /\ su_pc = "remote"
    /\ \/ \E a \in SummaryAnswers :
            /\ su_tried' = Append(su_tried, [strategy |-> "remote", ok |-> TRUE])
            /\ su_result' = a
            /\ su_pc' = "returned"
            /\ UNCHANGED use_openai
       \/ \E kind \in RemoteErrors :
            /\ su_tried' = Append(su_tried, [strategy |-> "remote", ok |-> FALSE])
            /\ IF RemoteHandled(kind)
               THEN /\ use_openai' = FALSE
                    /\ su_pc' = "local"
               ELSE /\ su_pc' = "raised"
                    /\ UNCHANGED use_openai
            /\ UNCHANGED su_result
    /\ UNCHANGED <<su_client, su_text, su_calls, notsu>>

\* _local_or_extractive: the local model answers or is unavailable
SuLocal ==
    /\ su_pc = "local"
    /\ \/ \E a \in SummaryAnswers :
            /\ su_tried' = Append(su_tried, [strategy |-> "local", ok |-> TRUE])
            /\ su_result' = a
            /\ su_pc' = "returned"
       \/ /\ su_tried' = Append(su_tried, [strategy |-> "local", ok |-> FALSE])
          /\ su_pc' = "extractive"
          /\ UNCHANGED su_result
    /\ UNCHANGED <<use_openai, su_client, su_text, su_calls, notsu>>

\* _extractive_summarize: its result, or the text cut at max_length when
\* anything inside it raises
SuExtractive ==
    /\ su_pc = "extractive"
    /\ su_tried' = Append(su_tried, [strategy |-> "extractive", ok |-> TRUE])
    /\ \E r \in ExtractiveResults(su_text, SummaryMaxLength)
                \cup {Prefix(su_text, SummaryMaxLength)} :
         su_result' = r
    /\ su_pc' = "returned"
    /\ UNCHANGED <<use_openai, su_client, su_text, su_calls, notsu>>

NextSummarizer ==
    \/ SuCall
    \/ SuRemote
    \/ SuLocal
    \/ SuExtractive

SpecSummarizer == InitSummarizer /\ [][NextSummarizer]_vars

StrategyOrder == <<"remote", "local", "extractive">>

\* C11: summarize returns a string and never raises, whichever backends
\* fail; remote, local model and extractive heuristic are tried in that
\* order, a later one only after every earlier one failed or was unavailable
C11_SummarizeNeverRaises ==
    /\ su_pc # "raised"
    /\ su_pc = "returned" => "None" \notin Range(su_result)
    /\ \A i \in 1..Len(su_tried) : \A j \in 1..Len(su_tried) :
         i < j => /\ ~su_tried[i].ok
                  /\ \E a \in 1..3 : \E b \in 1..3 :
                       /\ a < b
                       /\ StrategyOrder[a] = su_tried[i].strategy
                       /\ StrategyOrder[b] = su_tried[j].strategy
    /\ \A i \in 1..Len(su_tried) :
         /\ su_tried[i].strategy = "local"
                => (i = 1 => ~(use_openai /\ su_client))
         /\ su_tried[i].strategy = "extractive"
                => (i > 1 /\ su_tried[i - 1].strategy = "local")
         /\ su_tried[i].strategy = "remote" => i = 1
    /\ (su_pc = "returned" /\ Strip(su_text) # <<>>)
           => su_tried # <<>> /\ su_tried[Len(su_tried)].ok

C11_Witness ==
    /\ su_pc = "returned"
    /\ Len(su_tried) = 3
    /\ su_tried[3].strategy = "extractive"
    /\ su_result # <<>>

\* ----------------------------------------------------------------- cleaner

\* clean_audio calls made on one file system
MaxCleans == 2

\* the paths a clean_audio call can name: an upload, its default output and
\* another file of the temp directory
CleanerPaths == {AudioPath, CleanedPath(AudioPath), [dir |-> TEMP_DIR, name |-> <<"b">>]}

\* the paths of the file system: those and their default outputs
FsPaths == CleanerPaths \cup {CleanedPath(p) : p \in CleanerPaths}

\* no file at a path
Absent == [kind |-> "absent", hist |-> <<>>]

\* what a file can hold before any call: nothing, a waveform, a waveform of
\* zero duration, bytes that do not decode
InitialContents ==
    {Absent} \cup {[kind |-> k, hist |-> <<>>] : k \in {"audio", "empty", "corrupt"}}

\* the statements of _apply_cleaning_pipeline with the spectral gate first
PipelineStepsGateFirst == <<"gate", "trim", "normalize", "highpass">>

\* the statements of _apply_cleaning_pipeline, in source order
PipelineSteps == <<"trim", "normalize", "gate", "highpass">>

\* the try body of clean_audio with the write before the pipeline
CleanStepsWriteFirst == <<"load", "write", "pipeline">>

\* the try body of clean_audio, in source order
CleanSteps == <<"load", "pipeline", "write">>

\* the statement after statement s of the try body, or the return
AfterStep(s) ==
    LET i == CHOOSE k \in 1..Len(CleanSteps) : CleanSteps[k] = s
    IN  IF i = Len(CleanSteps) THEN "returned" ELSE CleanSteps[i + 1]

\* a primitive applied to a buffer
Apply(name, buf) == [buf EXCEPT !.hist = Append(@, name)]

\* output_path, or the default in the temp directory
ResolveOutput(input, output) == IF output = NoPath THEN CleanedPath(input) ELSE output

InitCleaner ==
    /\ PipelineIdle
    /\ EnIdle
    /\ FrIdle
    /\ TcIdle
    /\ ChIdle
    /\ SpIdle
    /\ WrIdle
    /\ SgIdle
    /\ SuIdle
    /\ CcIdle
    /\ cl_fs \in [FsPaths -> InitialContents]
    /\ \A p \in FsPaths \ CleanerPaths : cl_fs[p] = Absent
    /\ cl_fs[AudioPath].kind \in {"audio", "empty"}
    /\ cl_fs0 = cl_fs
    /\ cl_pc = "idle"
    /\ cl_input = NoPath
    /\ cl_output = NoPath
    /\ cl_audio = NoBuffer
    /\ cl_applied = <<>>
    /\ cl_error = "none"
    /\ cl_calls = 0

\* clean_audio up to the try
ClCall ==
    /\ cl_pc \in {"idle", "returned", "raised"}
    /\ cl_calls < MaxCleans
    /\ cl_calls' = cl_calls + 1
    /\ cl_fs0' = cl_fs
    /\ cl_audio' = NoBuffer
    /\ cl_applied' = <<>>
    /\ \E input \in CleanerPaths : \E output \in CleanerPaths \cup {NoPath} :
         /\ cl_input' = input
         /\ IF cl_fs[input].kind = "absent"
            THEN /\ cl_pc' = "raised"
                 /\ cl_error' = "FileNotFoundError"
                 /\ cl_output' = NoPath
            ELSE /\ cl_pc' = CleanSteps[1]
                 /\ cl_error' = "none"
                 /\ cl_output' = ResolveOutput(input, output)
    /\ UNCHANGED <<cl_fs, notcl>>

\* librosa.load
ClLoad ==
    /\ cl_pc = "load"
    /\ IF cl_fs[cl_input].kind \in {"audio", "empty"}
       THEN /\ cl_audio' = cl_fs[cl_input]
            /\ cl_pc' = AfterStep("load")
            /\ UNCHANGED cl_error
       ELSE /\ cl_pc' = "raised"
            /\ cl_error' = "LoadError"
            /\ UNCHANGED cl_audio
    /\ UNCHANGED <<cl_fs, cl_fs0, cl_input, cl_output, cl_applied, cl_calls, notcl>>

\* one statement of _apply_cleaning_pipeline: the primitive returns the next
\* buffer or raises
ClStep ==
    /\ cl_pc = "pipeline"
    /\ LET name == PipelineSteps[Len(cl_applied) + 1]
       IN  \/ /\ cl_audio' = Apply(name, cl_audio)
              /\ cl_applied' = Append(cl_applied,
                                 [name |-> name, in |-> cl_audio, out |-> Apply(name, cl_audio)])
              /\ cl_pc' = IF Len(cl_applied) + 1 = Len(PipelineSteps)
                          THEN AfterStep("pipeline") ELSE "pipeline"
              /\ UNCHANGED cl_error
           \/ /\ cl_pc' = "raised"
              /\ cl_error' = "PrimitiveError"
              /\ UNCHANGED <<cl_audio, cl_applied>>
    /\ UNCHANGED <<cl_fs, cl_fs0, cl_input, cl_output, cl_calls, notcl>>

\* sf.write: the file is written, or the write fails with the file untouched
\* or cut short
ClWrite ==
    /\ cl_pc = "write"
    /\ \/ /\ cl_fs' = [cl_fs EXCEPT ![cl_output] = cl_audio]
          /\ cl_pc' = AfterStep("write")
          /\ UNCHANGED cl_error
       \/ /\ cl_fs' \in {cl_fs, [cl_fs EXCEPT ![cl_output] = [kind |-> "corrupt", hist |-> <<>>]]}
          /\ cl_pc' = "raised"
          /\ cl_error' = "WriteError"
    /\ UNCHANGED <<cl_fs0, cl_input, cl_output, cl_audio, cl_applied, cl_calls, notcl>>

NextCleaner ==
    \/ ClCall
    \/ ClLoad
    \/ ClStep
    \/ ClWrite

SpecCleaner == InitCleaner /\ [][NextCleaner]_vars

\* the pipeline of the current call has returned
PipelineReturned == cl_pc \in {"write", "returned"} \/ cl_error = "WriteError"

\* C12: a clean_audio call whose pipeline returns has applied exactly four
\* transforms, each once and each to the output of the one before: trim,
\* normalize, spectral gate, high-pass; until then the transforms applied
\* are the first ones of that order; enhance_speech is never applied
C12_FourTransformsInOrder ==
    /\ Len(cl_applied) <= 4
    /\ \A i \in 1..Len(cl_applied) :
         /\ cl_applied[i].name = <<"trim", "normalize", "gate", "highpass">>[i]
         /\ cl_applied[i].name # "enhance"
         /\ i = 1 => cl_applied[i].in = cl_fs0[cl_input]
         /\ i > 1 => cl_applied[i].in = cl_applied[i - 1].out
    /\ PipelineReturned => Len(cl_applied) = 4
    /\ (cl_pc = "returned" /\ cl_output # cl_input)
           => cl_fs[cl_output] = cl_applied[4].out

C12_Witness ==
    /\ cl_pc = "returned"
    /\ Len(cl_applied) = 4
    /\ cl_fs[cl_output].hist = <<"trim", "normalize", "gate", "highpass">>

\* the failures of clean_audio before anything is written
FailedBeforeWrite ==
    /\ cl_pc = "raised"
    /\ cl_error \in {"FileNotFoundError", "LoadError", "PrimitiveError"}

\* C13: a clean_audio call that fails because the input is missing, the
\* load raises or a primitive raises propagates the error and leaves every
\* file as it was at the call
C13_FailureLeavesFilesAlone ==
    FailedBeforeWrite => /\ cl_fs = cl_fs0
                         /\ cl_error # "none"

C13_Witness ==
    /\ cl_pc = "raised"
    /\ cl_error = "PrimitiveError"
    /\ Len(cl_applied) = 3
    /\ cl_fs = cl_fs0

\* the files a call created
CreatedFiles == {p \in FsPaths : cl_fs0[p] = Absent /\ cl_fs[p] # Absent}

\* C14: every successful clean_audio call creates exactly one new file and
\* changes no other, the written path being neither the input nor a file
\* that existed at the call
C14_ExactlyOneNewFile ==
    cl_pc = "returned"
        => /\ Cardinality(CreatedFiles) = 1
           /\ \A p \in FsPaths \ CreatedFiles : cl_fs[p] = cl_fs0[p]
           /\ cl_output # cl_input
           /\ cl_fs0[cl_output] = Absent

\* C20: clean_audio on an input of zero duration ends in an invalid-input
\* error, in no other error, and writes nothing
C20_EmptyInputIsInvalidInput ==
    (cl_pc \in {"returned", "raised"} /\ cl_input # NoPath /\ cl_fs0[cl_input].kind = "empty")
        => /\ cl_pc = "raised"
           /\ cl_error = "InvalidInputError"
           /\ cl_fs = cl_fs0

\* ------------------------------------------------------ two runs at a time

\* the runs
Runs == {1, 2}

\* the inputs of the runs: an upload, another upload, and a file of the
\* same name in another directory
RunInputs ==
    {AudioPath,
     [dir |-> OUTPUT_DIR \o <<"uploads">>, name |-> <<"b">>],
     [dir |-> BASE_DIR \o <<"in">>, name |-> <<"a">>]}

InitConcurrent ==
    /\ PipelineIdle
    /\ EnIdle
    /\ FrIdle
    /\ TcIdle
    /\ ChIdle
    /\ SpIdle
    /\ WrIdle
    /\ SgIdle
    /\ SuIdle
    /\ ClIdle
    /\ cc_pc = [r \in Runs |-> "convert"]
    /\ cc_input \in [Runs -> RunInputs]
    /\ cc_converted = [r \in Runs |-> NoPath]
    /\ cc_cleaned = [r \in Runs |-> NoPath]
    /\ cc_created = [r \in Runs |-> {}]
    /\ cc_read = [r \in Runs |-> {}]

\* converter.convert_to_wav(audio_path) of run r
CcConvert(r) ==
    /\ cc_pc[r] = "convert"
    /\ \E t \in ConvertTargets(cc_input[r]) :
         /\ cc_converted' = [cc_converted EXCEPT ![r] = t]
         /\ cc_created' = [cc_created EXCEPT ![r] = @ \cup {t}]
    /\ cc_pc' = [cc_pc EXCEPT ![r] = "clean"]
    /\ UNCHANGED <<cc_input, cc_cleaned, cc_read, notcc>>

\* cleaner.clean_audio(converted_path) of run r
CcClean(r) ==
    /\ cc_pc[r] = "clean"
    /\ cc_cleaned' = [cc_cleaned EXCEPT ![r] = CleanedPath(cc_converted[r])]
    /\ cc_read' = [cc_read EXCEPT ![r] = @ \cup {cc_converted[r]}]
    /\ cc_created' = [cc_created EXCEPT ![r] = @ \cup {CleanedPath(cc_converted[r])}]
    /\ cc_pc' = [cc_pc EXCEPT ![r] = "transcribe"]
    /\ UNCHANGED <<cc_input, cc_converted, notcc>>

\* transcriber.transcribe(cleaned_path) of run r
CcTranscribe(r) ==
    /\ cc_pc[r] = "transcribe"
    /\ cc_read' = [cc_read EXCEPT ![r] = @ \cup {cc_cleaned[r]}]
    /\ cc_pc' = [cc_pc EXCEPT ![r] = "done"]
    /\ UNCHANGED <<cc_input, cc_converted, cc_cleaned, cc_created, notcc>>

NextConcurrent ==
    \/ \E r \in Runs : CcConvert(r)
    \/ \E r \in Runs : CcClean(r)
    \/ \E r \in Runs : CcTranscribe(r)

SpecConcurrent == InitConcurrent /\ [][NextConcurrent]_vars

\* C15: the temp files two concurrent runs create have distinct paths, and
\* neither run reads a temp file the other created
C15_TempFilesDistinct ==
    \A r \in DOMAIN cc_created : \A q \in DOMAIN cc_created :
        r # q => /\ cc_created[r] \cap cc_created[q] = {}
                 /\ cc_read[r] \cap cc_created[q] = {}

\* ------------------------------------------------------ signal primitives
\* Amplitudes are counted in thousandths of full scale, so that 10^(dB/20)
\* is a whole number for the levels used; sample arithmetic is exact.

\* samples in a buffer
MaxSamples == 4

\* frames in a spectrogram
MaxFrames == 3

\* the gain limit of _normalize_volume
MaxGain == 10

\* the factor of the gate threshold over the noise floor
GateFactor == 2

\* samples per frame step of the spectrogram
HopLength == 512

\* sample values: zero, below, at and above the -40 dB level, above -20 dB
SampleValues == {-20, 0, 5, 10, 200}

Buffers == UNION {[1..n -> SampleValues] : n \in 0..MaxSamples}

\* threshold_db of _trim_silence (default -40.0)
ThresholdDbs == {-40, -20}

\* target_db of _normalize_volume (default -20.0)
TargetDbs == {-20, 0}

\* 10 ** (db / 20), in thousandths
Amplitude(db) ==
    CASE db = -40 -> 10
      [] db = -20 -> 100
      [] db = 0 -> 1000

\* np.abs
Abs(x) == IF x < 0 THEN -x ELSE x

\* a comparison that also takes a sample at the threshold
ExceedsOrEquals(x, threshold) == x >= threshold

\* np.abs(audio) > threshold, for one sample
Exceeds(x, threshold) == x > threshold

\* np.where(np.abs(audio) > threshold)[0]
NonSilent(audio, threshold) ==
    SelectSeq([i \in 1..Len(audio) |-> i], LAMBDA i : Exceeds(Abs(audio[i]), threshold))

\* _trim_silence
TrimSilence(audio, threshold_db) ==
    LET non_silent == NonSilent(audio, Amplitude(threshold_db))
    IN  IF Len(non_silent) > 0
        THEN SubSeq(audio, non_silent[1], non_silent[Len(non_silent)])
        ELSE audio

\* the sum of the squares of the samples
RECURSIVE SumSq(_)
SumSq(audio) ==
    IF audio = <<>> THEN 0 ELSE Head(audio) * Head(audio) + SumSq(Tail(audio))

\* a guard that lets a buffer of zeros through
RmsNotNegative(audio) == Len(audio) > 0 /\ SumSq(audio) >= 0

\* rms > 0; the mean of no samples is not a number and compares false
RmsPositive(audio) == Len(audio) > 0 /\ SumSq(audio) > 0

\* the gain without its limit
UncappedGain2(num, den) == <<num, den>>

\* min(gain, 10.0), on the square of the gain num/den
CappedGain2(num, den) ==
    IF num > MaxGain * MaxGain * den THEN <<MaxGain * MaxGain, 1>> ELSE <<num, den>>

\* _normalize_volume: gain = target_amplitude / rms, so its square is
\* target_amplitude^2 * n / sum of squares
NormalizeVolume(audio, target_db) ==
    IF RmsPositive(audio)
    THEN LET target_amplitude == Amplitude(target_db)
             gain2 == CappedGain2(target_amplitude * target_amplitude * Len(audio),
                                  SumSq(audio))
         IN  Scaled(audio, gain2[1], gain2[2])
    ELSE Scaled(audio, 1, 1)

\* frequency bins of a spectrogram
Bins == {1, 2}

\* a bin the gate has removed
ZeroBin == [mag |-> 0, phase |-> 0]

\* one time-frequency bin: magnitude and phase (np.angle of zero is zero)
BinValues == {ZeroBin} \cup [mag : {1, 3}, phase : {0, 1}]

\* librosa.stft of a buffer with samples: per frequency bin, the frames
Spectrograms == UNION {[Bins -> [1..f -> BinValues]] : f \in 1..MaxFrames}

\* librosa.stft of a buffer without samples, where it returns: one frame of zeros
EmptySpectrogram == [b \in Bins |-> <<ZeroBin>>]

\* sr of _reduce_noise
SampleRates == {512, 1024, 16000}

\* noise_samples // 512
NoiseFrames(sr) == (sr \div 2) \div HopLength

\* magnitude[:, :k] of one frequency bin
NoiseWindow(frames, k) == SubSeq(frames, 1, IF k < Len(frames) THEN k ELSE Len(frames))

\* the sum of the magnitudes of some frames
RECURSIVE SumMag(_)
SumMag(frames) ==
    IF frames = <<>> THEN 0 ELSE Head(frames).mag + SumMag(Tail(frames))

\* a mask that also keeps a bin at the gate threshold
MaskOrEqual(mag, count, sum) == count > 0 /\ mag * count >= GateFactor * sum

\* magnitude > noise_floor * 2.0 with noise_floor = sum / count; the mean
\* of no frames is not a number and compares false
Mask(mag, count, sum) == count > 0 /\ mag * count > GateFactor * sum

\* _reduce_noise between stft and istft
ReduceNoise(stft, sr) ==
    [b \in DOMAIN stft |->
        LET noise_magnitude == NoiseWindow(stft[b], NoiseFrames(sr))
        IN  [j \in 1..Len(stft[b]) |->
                IF Mask(stft[b][j].mag, Len(noise_magnitude), SumMag(noise_magnitude))
                THEN stft[b][j] ELSE ZeroBin]]

\* a primitive has been called with arguments of its domain
InitSignal ==
    /\ PipelineIdle
    /\ EnIdle
    /\ FrIdle
    /\ TcIdle
    /\ ChIdle
    /\ SpIdle
    /\ WrIdle
    /\ SuIdle
    /\ ClIdle
    /\ CcIdle
    /\ sg_pc = "called"
    /\ sg_out = Scaled(<<>>, 1, 1)
    /\ sg_gated = <<>>
    /\ \/ /\ sg_op = "trim"
          /\ sg_audio \in Buffers
          /\ sg_db \in ThresholdDbs
          /\ sg_gate = GateInput(FALSE, <<>>)
          /\ sg_sr = 0
       \/ /\ sg_op = "normalize"
          /\ sg_audio \in Buffers
          /\ sg_db \in TargetDbs
          /\ sg_gate = GateInput(FALSE, <<>>)
          /\ sg_sr = 0
       \/ /\ sg_op = "gate"
          /\ sg_audio = <<>>
          /\ sg_db = 0
          /\ sg_gate \in {GateInput(FALSE, m) : m \in Spectrograms}
                            \cup {GateInput(TRUE, EmptySpectrogram)}
          /\ sg_sr \in SampleRates

SgTrim ==
    /\ sg_pc = "called"
    /\ sg_op = "trim"
    /\ sg_out' = Scaled(TrimSilence(sg_audio, sg_db), 1, 1)
    /\ sg_pc' = "returned"
    /\ UNCHANGED <<sg_op, sg_audio, sg_db, sg_gate, sg_sr, sg_gated, notsg>>

SgNormalize ==
    /\ sg_pc = "called"
    /\ sg_op = "normalize"
    /\ sg_out' = NormalizeVolume(sg_audio, sg_db)
    /\ sg_pc' = "returned"
    /\ UNCHANGED <<sg_op, sg_audio, sg_db, sg_gate, sg_sr, sg_gated, notsg>>

\* _reduce_noise; on a buffer without samples librosa.stft raises or
\* returns, depending on its version
SgGate ==
    /\ sg_pc = "called"
    /\ sg_op = "gate"
    /\ \/ /\ sg_gated' = ReduceNoise(sg_gate.stft, sg_sr)
          /\ sg_pc' = "returned"
       \/ /\ sg_gate.empty
          /\ sg_pc' = "raised"
          /\ UNCHANGED sg_gated
    /\ UNCHANGED <<sg_op, sg_audio, sg_db, sg_gate, sg_sr, sg_out, notsg>>

NextSignal ==
    \/ SgTrim
    \/ SgNormalize
    \/ SgGate

SpecSignal == InitSignal /\ [][NextSignal]_vars

\* the indices of the samples strictly above the threshold of the call
Loud == {i \in 1..Len(sg_audio) : Abs(sg_audio[i]) > Amplitude(sg_db)}

\* C16: _trim_silence returns exactly the samples from the first to the
\* last one whose absolute amplitude is strictly greater than
\* 10^(threshold_db/20), the interior kept whatever its amplitude; when no
\* sample exceeds the threshold the buffer is returned unchanged
C16_TrimIsFirstToLastLoud ==
    (sg_op = "trim" /\ sg_pc = "returned")
        => IF Loud = {}
           THEN sg_out.samples = sg_audio
           ELSE \E first \in Loud : \E last \in Loud :
                  /\ \A i \in Loud : first <= i /\ i <= last
                  /\ sg_out.samples = [k \in 1..(last - first + 1) |-> sg_audio[first + k - 1]]

C16_Witness ==
    /\ sg_op = "trim"
    /\ sg_pc = "returned"
    /\ Len(sg_audio) = MaxSamples
    /\ Abs(sg_audio[1]) = Amplitude(sg_db)
    /\ Len(sg_out.samples) = Len(sg_audio) - 1
    /\ \E k \in 2..(Len(sg_out.samples) - 1) : Abs(sg_out.samples[k]) < Amplitude(sg_db)

\* every sample is below the default trim threshold
NearZero == \A i \in 1..Len(sg_audio) : Abs(sg_audio[i]) < Amplitude(-40)

\* every sample is zero
AllZero == \A i \in 1..Len(sg_audio) : sg_audio[i] = 0

\* the result is the argument, with no gain applied
Unchanged == sg_out.samples = sg_audio /\ sg_out.num = sg_out.den

\* C17 as stated: on a buffer of near-zero samples _trim_silence returns a
\* buffer no longer than its input and _normalize_volume returns its input
\* unchanged
C17_NearZeroUnchanged ==
    (sg_pc = "returned" /\ NearZero)
        => /\ sg_op = "trim" => Len(sg_out.samples) <= Len(sg_audio)
           /\ sg_op = "normalize" => Unchanged

\* C17 amended: on a buffer of near-zero samples _trim_silence returns a
\* buffer no longer than its input, and _normalize_volume returns its input
\* unchanged when every sample is exactly zero
C17_ZeroUnchanged ==
    /\ (sg_pc = "returned" /\ NearZero /\ sg_op = "trim")
           => Len(sg_out.samples) <= Len(sg_audio)
    /\ (sg_pc = "returned" /\ AllZero /\ sg_op = "normalize") => Unchanged

C17_Witness ==
    /\ sg_pc = "returned"
    /\ sg_op = "normalize"
    /\ Len(sg_audio) = MaxSamples
    /\ AllZero
    /\ Unchanged

\* C18: the gain of _normalize_volume is at most 10; with a non-zero RMS
\* the samples are multiplied by min(target_amplitude/rms, 10), with an RMS
\* of zero the buffer is returned unchanged
C18_GainAtMostTen ==
    (sg_op = "normalize" /\ sg_pc = "returned")
        => LET n == Len(sg_audio)
               ss == SumSq(sg_audio)
               t2 == Amplitude(sg_db) * Amplitude(sg_db)
           IN  /\ sg_out.samples = sg_audio
               /\ sg_out.den > 0
               /\ sg_out.num <= 100 * sg_out.den
               /\ ss > 0 => IF t2 * n >= 100 * ss
                            THEN sg_out.num = 100 * sg_out.den
                            ELSE <<sg_out.num, sg_out.den>> = <<t2 * n, ss>>
               /\ ss = 0 => sg_out.num = sg_out.den

C18_Witness ==
    /\ sg_op = "normalize"
    /\ sg_pc = "returned"
    /\ SumSq(sg_audio) > 0
    /\ Amplitude(sg_db) * Amplitude(sg_db) * Len(sg_audio) > 100 * SumSq(sg_audio)
    /\ sg_out.num = 100 * sg_out.den

\* the frames of frequency bin b that lie in the first 0.5 seconds
NoiseFramesOf(b) == {j \in 1..Len(sg_gate.stft[b]) : j <= (sg_sr \div 2) \div 512}

\* every bin of the output keeps magnitude and phase when its magnitude is
\* strictly above twice the mean over the noise frames of its frequency
\* bin, and is zero otherwise
GateKeepsLoudBins ==
    \A b \in Bins : \A j \in 1..Len(sg_gate.stft[b]) :
        LET bin == sg_gate.stft[b][j]
            count == Cardinality(NoiseFramesOf(b))
            sum == SumMag([k \in 1..count |-> sg_gate.stft[b][k]])
        IN  sg_gated[b][j] = IF count > 0 /\ bin.mag * count > 2 * sum
                             THEN bin ELSE [mag |-> 0, phase |-> 0]

MaxSaves == 2

\* seconds the clock can show
MaxClock == 2

\* self.output_dir / f"summary_{timestamp}.<ext>"
SummaryPathAt(timestamp, fmt) == [dir |-> OUTPUT_DIR, name |-> <<"summary", timestamp, fmt>>]

InitWriter ==
    /\ PipelineIdle
    /\ EnIdle
    /\ FrIdle
    /\ TcIdle
    /\ ChIdle
    /\ SpIdle
    /\ SuIdle
    /\ ClIdle
    /\ CcIdle
    /\ SgIdle
    /\ WrIdle

\* a second passes
WrTick ==
    /\ wr_now < MaxClock
    /\ wr_now' = wr_now + 1
    /\ UNCHANGED <<wr_pc, wr_format, wr_timestamp, wr_fs, wr_fs0, wr_written,
                   wr_result, wr_error, wr_calls, notwr>>

\* save_summary: timestamp = datetime.now()
WrCall ==
    /\ wr_pc \in {"idle", "returned", "raised"}
    /\ wr_calls < MaxSaves
    /\ wr_calls' = wr_calls + 1
    /\ \E fmt \in OutputFormats : wr_format' = fmt
    /\ wr_timestamp' = wr_now
    /\ wr_fs0' = wr_fs
    /\ wr_written' = {}
    /\ wr_result' = NoPath
    /\ wr_error' = "none"
    /\ wr_pc' = "dispatch"
    /\ UNCHANGED <<wr_now, wr_fs, notwr>>

\* save_summary: the dispatch on output_format and the _save_as_* it calls
WrSave ==
    /\ wr_pc = "dispatch"
    /\ \E o \in SaveOutcomes(wr_format) :
         LET path == SummaryPathAt(wr_timestamp, wr_format)
         IN  /\ wr_written' = IF o.opened THEN {path} ELSE {}
             /\ wr_fs' = IF o.opened THEN wr_fs \cup {path} ELSE wr_fs
             /\ wr_pc' = IF o.ok THEN "returned" ELSE "raised"
             /\ wr_result' = IF o.ok THEN path ELSE NoPath
             /\ wr_error' = o.err
    /\ UNCHANGED <<wr_now, wr_format, wr_timestamp, wr_fs0, wr_calls, notwr>>

NextWriter ==
    \/ WrTick
    \/ WrCall
    \/ WrSave

SpecWriter == InitWriter /\ [][NextWriter]_vars

\* C21: save_summary with a format outside txt, pdf, json raises the
\* unsupported-format error and creates no file; a call with one of the
\* three formats that returns has written exactly one file, in the output
\* directory, and returns its path
C21_SaveSummaryByFormat ==
    /\ (wr_pc \in {"returned", "raised"} /\ wr_format \notin {"txt", "pdf", "json"})
           => /\ wr_pc = "raised"
              /\ wr_error = "UnsupportedFormat"
              /\ wr_written = {}
              /\ wr_fs = wr_fs0
    /\ wr_pc = "returned"
           => /\ wr_format \in {"txt", "pdf", "json"}
              /\ Cardinality(wr_written) = 1
              /\ wr_fs = wr_fs0 \cup wr_written
              /\ \A p \in wr_written : p.dir = OUTPUT_DIR /\ wr_result = p

C21_Witness ==
    /\ wr_pc = "returned"
    /\ wr_format = "json"
    /\ wr_calls = MaxSaves
    /\ Cardinality(wr_fs) = 2
    /\ wr_result \in wr_fs

\* ------------------------------------------- chunk_and_summarize: the split

\* characters of a text to split
MaxTextLen == 4

\* the largest chunk_size
MaxChunk == 3

SplitChars == {" ", "a", ".", "!", "?"}

SplitTexts == TextsUpTo(SplitChars, MaxTextLen)

\* text[lo:hi], indices counted from 0
Slice(text, lo, hi) == SubSeq(text, lo + 1, hi)

\* text.rfind(ch, lo, hi): the highest index in lo..hi-1 holding ch, or -1
RFind(text, ch, lo, hi) ==
    LET top == IF hi < Len(text) THEN hi ELSE Len(text)
        found == {i \in lo..(top - 1) : text[i + 1] = ch}
    IN  IF found = {} THEN -1 ELSE CHOOSE i \in found : \A j \in found : j <= i

\* a search for the cut over the whole window
WindowStart(start, chunk_size) == start

\* start + int(chunk_size * 0.75)
TrailingStart(start, chunk_size) == start + (3 * chunk_size) \div 4

\* one pass of the while loop: the index the piece from start ends at
PieceEnd(text, start, chunk_size) ==
    LET n == Len(text)
        end == IF start + chunk_size < n THEN start + chunk_size ELSE n
        lo == TrailingStart(start, chunk_size)
        dot == RFind(text, ".", lo, end)
        bang == IF dot = -1 THEN RFind(text, "!", lo, end) ELSE dot
        cut == IF bang = -1 THEN RFind(text, "?", lo, end) ELSE bang
    IN  IF cut # -1 THEN cut + 1 ELSE end

InitSplit ==
    /\ PipelineIdle
    /\ EnIdle
    /\ FrIdle
    /\ TcIdle
    /\ ChIdle
    /\ SuIdle
    /\ ClIdle
    /\ CcIdle
    /\ SgIdle
    /\ WrIdle
    /\ sp_pc = "called"
    /\ sp_text \in SplitTexts
    /\ sp_chunk_size \in 0..MaxChunk
    /\ sp_start = 0
    /\ sp_pieces = <<>>
    /\ sp_summarized = <<>>

\* the blank-text return, or start = 0
SpCheck ==
    /\ sp_pc = "called"
    /\ sp_pc' = IF Strip(sp_text) = <<>> THEN "returned" ELSE "split"
    /\ UNCHANGED <<sp_text, sp_chunk_size, sp_start, sp_pieces, sp_summarized, notsp>>

\* one pass of while start < n (the model stops after MaxTextLen + 1 passes)
SpSplitStep ==
    /\ sp_pc = "split"
    /\ sp_start < Len(sp_text)
    /\ Len(sp_pieces) <= MaxTextLen
    /\ LET end == PieceEnd(sp_text, sp_start, sp_chunk_size)
       IN  /\ sp_pieces' = Append(sp_pieces, Slice(sp_text, sp_start, end))
           /\ sp_start' = end
    /\ UNCHANGED <<sp_pc, sp_text, sp_chunk_size, sp_summarized, notsp>>

\* the loop condition fails
SpSplitExit ==
    /\ sp_pc = "split"
    /\ sp_start >= Len(sp_text)
    /\ sp_pc' = "summarize"
    /\ UNCHANGED <<sp_text, sp_chunk_size, sp_start, sp_pieces, sp_summarized, notsp>>

\* one pass of for chunk in chunks: self.summarize(chunk, ...)
SpSummarizeStep ==
    /\ sp_pc = "summarize"
    /\ Len(sp_summarized) < Len(sp_pieces)
    /\ sp_summarized' = Append(sp_summarized, Strip(sp_pieces[Len(sp_summarized) + 1]))
    /\ UNCHANGED <<sp_pc, sp_text, sp_chunk_size, sp_start, sp_pieces, notsp>>

\* the chunks are exhausted
SpReturn ==
    /\ sp_pc = "summarize"
    /\ Len(sp_summarized) = Len(sp_pieces)
    /\ sp_pc' = "returned"
    /\ UNCHANGED <<sp_text, sp_chunk_size, sp_start, sp_pieces, sp_summarized, notsp>>

NextSplit ==
    \/ SpCheck
    \/ SpSplitStep
    \/ SpSplitExit
    \/ SpSummarizeStep
    \/ SpReturn

SpecSplit == InitSplit /\ [][NextSplit]_vars

\* the pieces one after the other
RECURSIVE Concat(_)
Concat(pieces) == IF pieces = <<>> THEN <<>> ELSE Head(pieces) \o Concat(Tail(pieces))

\* the index of the text, counted from 0, at which piece k starts
PieceStart(k) == Len(Concat(SubSeq(sp_pieces, 1, k - 1)))

\* the indices of the sentence-ending marks in the trailing quarter of the
\* window of piece k
MarksInTrailingQuarter(k) ==
    LET s == PieceStart(k)
        w == IF s + sp_chunk_size < Len(sp_text) THEN s + sp_chunk_size ELSE Len(sp_text)
    IN  {i \in (s + (3 * sp_chunk_size) \div 4)..(w - 1) : sp_text[i + 1] \in {".", "!", "?"}}

C26_StartStrictlyIncreases == [][SpSplitStep => sp_start' > sp_start]_vars

\* ------------------------------------- the summarization step of a run

\* summarization steps made with one Summarizer instance
MaxRuns == 2

\* summary_style of process_audio_file; style of summarize
Styles == {"concise", "detailed"}

\* the default of the style parameter of chunk_and_summarize
DefaultStyle == "concise"

\* SUMMARIZATION_SETTINGS["max_length"], also a small one
MaxLengths == {1, SummaryMaxLength}

\* what a backend answers to one chunk, stripped
ChunkAnswers == {<<>>, <<"s">>}

\* a guard that looks at the client only
RemoteChosenIgnoringSwitch(use, client) == client

\* if self.use_openai and self.client
RemoteChosen(use, client) == use /\ client

\* one summarize call: whether the remote backend was called and how that
\* ended, the result, and the switch afterwards
SummarizeOutcomes(text, use, client) ==
    IF Strip(text) = <<>>
    THEN {[remote |-> "none", result |-> <<>>, use |-> use]}
    ELSE IF RemoteChosen(use, client)
    THEN {[remote |-> "ok", result |-> a, use |-> use] : a \in ChunkAnswers}
         \cup {[remote |-> "failed", result |-> a, use |-> FALSE] : a \in ChunkAnswers}
    ELSE {[remote |-> "none", result |-> a, use |-> use] : a \in ChunkAnswers}

\* the chunks of the while loop, stripped
RECURSIVE ChunksFrom(_, _, _)
ChunksFrom(text, start, chunk_size) ==
    IF start >= Len(text) THEN <<>>
    ELSE LET end == PieceEnd(text, start, chunk_size)
         IN  <<Strip(Slice(text, start, end))>> \o ChunksFrom(text, end, chunk_size)

\* "\n".join(s for s in partials if s).strip()
RECURSIVE JoinLines(_)
JoinLines(partials) ==
    LET kept == SelectSeq(partials, LAMBDA x : x # <<>>)
    IN  IF kept = <<>> THEN <<>>
        ELSE IF Len(kept) = 1 THEN kept[1]
        ELSE kept[1] \o <<"\n">> \o JoinLines(Tail(kept))

\* the bookkeeping of one summarize call with outcome o and style st
Summarized(o, st) ==
    /\ use_openai' = o.use
    /\ ch_styles' = Append(ch_styles, st)
    /\ ch_failed' = IF o.remote = "failed" THEN ch_failed + 1 ELSE ch_failed
    /\ ch_after' = IF o.remote # "none" /\ ch_failed > 0 THEN ch_after + 1 ELSE ch_after

InitChunked ==
    /\ PipelineIdle
    /\ EnIdle
    /\ FrIdle
    /\ TcIdle
    /\ ClIdle
    /\ CcIdle
    /\ SgIdle
    /\ WrIdle
    /\ SpIdle
    /\ \E built \in BOOLEAN : use_openai = built /\ su_client = built
    /\ su_pc = "idle"
    /\ su_text = <<>>
    /\ su_tried = <<>>
    /\ su_result = <<>>
    /\ su_calls = 0
    /\ ch_pc = "idle"
    /\ ch_requested = "concise"
    /\ ch_style = "concise"
    /\ ch_text = <<>>
    /\ ch_max_length = 1
    /\ ch_chunks = <<>>
    /\ ch_partials = <<>>
    /\ ch_result = <<>>
    /\ ch_styles = <<>>
    /\ ch_failed = 0
    /\ ch_after = 0
    /\ ch_runs = 0

\* process_audio_file: chunk_and_summarize(original_text, chunk_size) when
\* the text is longer than chunk_size, summarize(original_text, style) otherwise
ChSite ==
    /\ ch_pc \in {"idle", "returned"}
    /\ ch_runs < MaxRuns
    /\ ch_runs' = ch_runs + 1
    /\ ch_partials' = <<>>
    /\ ch_result' = <<>>
    /\ ch_styles' = <<>>
    /\ \E text \in Texts : \E chunk_size \in ChunkSizes :
       \E style \in Styles : \E max_length \in MaxLengths :
         /\ ch_text' = text
         /\ ch_requested' = style
         /\ ch_max_length' = max_length
         /\ IF Len(text) > chunk_size
            THEN /\ ch_style' = DefaultStyle
                 /\ IF Strip(text) = <<>>
                    THEN ch_pc' = "returned" /\ ch_chunks' = <<>>
                    ELSE ch_pc' = "chunks" /\ ch_chunks' = ChunksFrom(text, 0, chunk_size)
            ELSE /\ ch_style' = style
                 /\ ch_pc' = "single"
                 /\ ch_chunks' = <<>>
    /\ UNCHANGED <<use_openai, su_client, suframe, ch_failed, ch_after, notchsu>>

\* summarizer.summarize(original_text, style = summary_style)
ChSingle ==
    /\ ch_pc = "single"
    /\ \E o \in SummarizeOutcomes(ch_text, use_openai, su_client) :
         /\ Summarized(o, ch_style)
         /\ ch_result' = o.result
    /\ ch_pc' = "returned"
    /\ UNCHANGED <<su_client, suframe, ch_requested, ch_style, ch_text, ch_max_length,
                   ch_chunks, ch_partials, ch_runs, notchsu>>

\* one pass of for chunk in chunks: partials.append(self.summarize(chunk, style=style))
ChChunk ==
    /\ ch_pc = "chunks"
    /\ Len(ch_partials) < Len(ch_chunks)
    /\ \E o \in SummarizeOutcomes(ch_chunks[Len(ch_partials) + 1], use_openai, su_client) :
         /\ Summarized(o, ch_style)
         /\ ch_partials' = Append(ch_partials, o.result)
    /\ UNCHANGED <<su_client, suframe, ch_pc, ch_requested, ch_style, ch_text,
                   ch_max_length, ch_chunks, ch_result, ch_runs, notchsu>>

\* combined = "\n".join(...); the final pass follows when it is too long
ChCombine ==
    /\ ch_pc = "chunks"
    /\ Len(ch_partials) = Len(ch_chunks)
    /\ ch_result' = Strip(JoinLines(ch_partials))
    /\ ch_pc' = IF Len(Strip(JoinLines(ch_partials))) > ch_max_length * 2
                THEN "final" ELSE "returned"
    /\ UNCHANGED <<suvars, ch_requested, ch_style, ch_text, ch_max_length, ch_chunks,
                   ch_partials, ch_styles, ch_failed, ch_after, ch_runs, notchsu>>

\* combined = self.summarize(combined, max_length=..., style=style)
ChFinal ==
    /\ ch_pc = "final"
    /\ \E o \in SummarizeOutcomes(ch_result, use_openai, su_client) :
         /\ Summarized(o, ch_style)
         /\ ch_result' = o.result
    /\ ch_pc' = "returned"
    /\ UNCHANGED <<su_client, suframe, ch_requested, ch_style, ch_text, ch_max_length,
                   ch_chunks, ch_partials, ch_runs, notchsu>>

NextChunked ==
    \/ ChSite
    \/ ChSingle
    \/ ChChunk
    \/ ChCombine
    \/ ChFinal

SpecChunked == InitChunked /\ [][NextChunked]_vars

\* C27: every summarize call of a run is passed the summary style the
\* caller of process_audio_file requested
C27_RequestedStyleReachesSummarize ==
    \A k \in 1..Len(ch_styles) : ch_styles[k] = ch_requested

\* C28: once a remote call has failed on a Summarizer instance the switch
\* use_openai is false from then on, no later call goes to the remote
\* backend, and so at most one remote call of the instance fails
C28_RemoteOffAfterFailure ==
    /\ ch_failed <= 1
    /\ ch_after = 0
    /\ ch_failed > 0 => ~use_openai

C28_Witness ==
    /\ ch_failed = 1
    /\ ch_runs = MaxRuns
    /\ ch_pc = "returned"
    /\ Len(ch_styles) = 3
    /\ ~use_openai

\* ------------------------------------------------------- transcribe_chunk

\* transcribe_chunk calls made on one temp directory
MaxChunkCalls == 2

\* the latest end_time, in seconds
MaxTime == 3

\* TEMP_DIR / f"chunk_{start_time:.2f}_{end_time:.2f}.wav"
ChunkPath(start_time, end_time) == [dir |-> TEMP_DIR, name |-> <<"chunk", start_time, end_time>>]

InitChunkFile ==
    /\ PipelineIdle
    /\ EnIdle
    /\ FrIdle
    /\ SuIdle
    /\ ClIdle
    /\ CcIdle
    /\ SgIdle
    /\ WrIdle
    /\ SpIdle
    /\ ChIdle
    /\ TcIdle

\* transcribe_chunk is called
TcCall ==
    /\ tc_pc \in {"idle", "returned", "raised"}
    /\ tc_calls < MaxChunkCalls
    /\ tc_calls' = tc_calls + 1
    /\ \E s \in 0..MaxTime : \E e \in 0..MaxTime :
         /\ s < e
         /\ tc_start' = s
         /\ tc_end' = e
    /\ tc_pc' = "load"
    /\ tc_error' = "none"
    /\ UNCHANGED <<tc_fs, nottc>>

\* librosa.load and the slice
TcLoad ==
    /\ tc_pc = "load"
    /\ \/ tc_pc' = "write" /\ UNCHANGED tc_error
       \/ tc_pc' = "raised" /\ tc_error' = "LoadError"
    /\ UNCHANGED <<tc_start, tc_end, tc_fs, tc_calls, nottc>>

\* sf.write(chunk_path, ...): the file is written, or the write fails
\* before or after the file is created
TcWrite ==
    /\ tc_pc = "write"
    /\ \/ /\ tc_fs' = tc_fs \cup {ChunkPath(tc_start, tc_end)}
          /\ tc_pc' = "transcribe"
          /\ UNCHANGED tc_error
       \/ /\ tc_fs' \in {tc_fs, tc_fs \cup {ChunkPath(tc_start, tc_end)}}
          /\ tc_pc' = "raised"
          /\ tc_error' = "WriteError"
    /\ UNCHANGED <<tc_start, tc_end, tc_calls, nottc>>

\* self.transcribe(chunk_path, language)
TcTranscribe ==
    /\ tc_pc = "transcribe"
    /\ \/ tc_pc' = "unlink" /\ UNCHANGED tc_error
       \/ tc_pc' = "raised" /\ tc_error' = "TranscriptionError"
    /\ UNCHANGED <<tc_start, tc_end, tc_fs, tc_calls, nottc>>

\* chunk_path.unlink(missing_ok=True); return transcript
TcUnlink ==
    /\ tc_pc = "unlink"
    /\ tc_fs' = tc_fs \ {ChunkPath(tc_start, tc_end)}
    /\ tc_pc' = "returned"
    /\ UNCHANGED <<tc_start, tc_end, tc_error, tc_calls, nottc>>

NextChunkFile ==
    \/ TcCall
    \/ TcLoad
    \/ TcWrite
    \/ TcTranscribe
    \/ TcUnlink

SpecChunkFile == InitChunkFile /\ [][NextChunkFile]_vars

\* C25: after every transcribe_chunk call, returned or raised, the chunk
\* file of the call no longer exists in the temp directory
C25_ChunkFileDiscarded ==
    tc_pc \in {"returned", "raised"} => ChunkPath(tc_start, tc_end) \notin tc_fs

\* ------------------------------------------- _reduce_noise: buffer lengths

\* samples in a buffer to measure
MaxBufferLen == 1100

\* n_fft of librosa.stft and librosa.istft as _reduce_noise calls them
FftSize == 2048

\* the length of an inverse transform that keeps the centring pad
IstftLengthUntrimmed(frames) == FftSize + HopLength * (frames - 1)

\* librosa.istft(cleaned_stft): frames overlap-added, the centring pad removed
IstftLength(frames) == HopLength * (frames - 1)

\* librosa.stft(audio): frames of a centred transform
StftFrames(n) == 1 + n \div HopLength

InitFrames ==
    /\ PipelineIdle
    /\ EnIdle
    /\ SuIdle
    /\ ClIdle
    /\ CcIdle
    /\ SgIdle
    /\ WrIdle
    /\ SpIdle
    /\ ChIdle
    /\ TcIdle
    /\ fr_pc = "called"
    /\ fr_len \in 0..MaxBufferLen
    /\ fr_frames = 0
    /\ fr_out = 0

\* stft, magnitude, phase; on a buffer without samples librosa.stft raises
\* or returns, depending on its version
FrStft ==
    /\ fr_pc = "called"
    /\ \/ /\ fr_frames' = StftFrames(fr_len)
          /\ fr_pc' = "gated"
       \/ /\ fr_len = 0
          /\ fr_pc' = "raised"
          /\ UNCHANGED fr_frames
    /\ UNCHANGED <<fr_len, fr_out, notfr>>

\* the mask keeps the shape of the spectrogram; istft and return
FrIstft ==
    /\ fr_pc = "gated"
    /\ fr_out' = IstftLength(fr_frames)
    /\ fr_pc' = "returned"
    /\ UNCHANGED <<fr_len, fr_frames, notfr>>

NextFrames ==
    \/ FrStft
    \/ FrIstft

SpecFrames == InitFrames /\ [][NextFrames]_vars

\* C23: the buffer _reduce_noise returns is shorter than its input by less
\* than one hop of 512 samples, the difference being the rounding to whole
\* frames
C23_LengthWithinOneHop ==
    fr_pc = "returned"
        => /\ fr_out <= fr_len
           /\ fr_len - fr_out < 512
           /\ fr_out % 512 = 0

C23_Witness ==
    /\ fr_pc = "returned"
    /\ fr_len = 1023
    /\ fr_out = 512

\* ---------------------------------------------------------- enhance_speech

\* pre_emphasis, in hundredths
PreEmphasis == 97

\* alpha, the over-subtraction factor
Alpha == 2

\* beta, the spectral floor, in hundredths
Beta == 1

\* the buffers enhance_speech is called with: one or two samples
EnhanceBuffers == UNION {[1..n -> {-20, 5, 200}] : n \in 1..2}

\* np.abs(stft): per frequency bin, the magnitudes of the frames
Magnitudes == UNION {[Bins -> [1..f -> {0, 1, 3}]] : f \in 1..MaxFrames}

\* np.append(audio[0], audio[1:] - pre_emphasis * audio[:-1]), in
\* hundredths of the sample unit
Emphasize(audio) ==
    [n \in 1..Len(audio) |->
        IF n = 1 THEN 100 * audio[1] ELSE 100 * audio[n] - PreEmphasis * audio[n - 1]]

\* the sum of some magnitudes
RECURSIVE Sum(_)
Sum(values) == IF values = <<>> THEN 0 ELSE Head(values) + Sum(Tail(values))

\* a magnitude as a fraction, or not a number
Value(nan, num, den) == [nan |-> nan, num |-> num, den |-> den]

\* np.maximum(magnitude - alpha * noise_spectrum, beta * magnitude) for one
\* bin, the noise being sum / count; the mean of no frames is not a number
\* and so is everything computed from it
Subtract(mag, count, sum) ==
    IF count = 0 THEN Value(TRUE, 0, 1)
    ELSE LET lowered == 100 * count * mag - 100 * Alpha * sum
             floor == Beta * count * mag
         IN  Value(FALSE, IF lowered > floor THEN lowered ELSE floor, 100 * count)

\* enhance_speech between stft and istft
SpectralSubtraction(magnitude, sr) ==
    [b \in DOMAIN magnitude |->
        LET noise == NoiseWindow(magnitude[b], NoiseFrames(sr))
        IN  [j \in 1..Len(magnitude[b]) |->
                Subtract(magnitude[b][j], Len(noise), Sum(noise))]]

InitEnhance ==
    /\ PipelineIdle
    /\ SuIdle
    /\ ClIdle
    /\ CcIdle
    /\ SgIdle
    /\ WrIdle
    /\ SpIdle
    /\ ChIdle
    /\ TcIdle
    /\ FrIdle
    /\ en_pc = "called"
    /\ en_audio \in EnhanceBuffers
    /\ en_sr \in SampleRates
    /\ en_emphasized = <<>>
    /\ en_magnitude = <<>>
    /\ en_subtracted = <<>>

\* the pre-emphasis filter, then librosa.stft and np.abs of its result
EnEmphasize ==
    /\ en_pc = "called"
    /\ en_emphasized' = Emphasize(en_audio)
    /\ en_magnitude' \in Magnitudes
    /\ en_pc' = "transformed"
    /\ UNCHANGED <<en_audio, en_sr, en_subtracted, noten>>

\* the noise estimate and the subtraction with its floor
EnSubtract ==
    /\ en_pc = "transformed"
    /\ en_subtracted' = SpectralSubtraction(en_magnitude, en_sr)
    /\ en_pc' = "returned"
    /\ UNCHANGED <<en_audio, en_sr, en_emphasized, en_magnitude, noten>>

NextEnhance ==
    \/ EnEmphasize
    \/ EnSubtract

SpecEnhance == InitEnhance /\ [][NextEnhance]_vars

\* the mean magnitude of the noise frames of bin b is num / den
NoiseOf(b) ==
    LET count == Cardinality({j \in 1..Len(en_magnitude[b]) : j <= (en_sr \div 2) \div 512})
    IN  [num |-> Sum(SubSeq(en_magnitude[b], 1, count)), den |-> count]

\* C24: enhance_speech leaves the first sample unchanged by pre-emphasis
\* and takes 0.97 times the sample before from every later one; every bin
\* of its output magnitude is max(magnitude - 2.0 * noise, 0.01 * magnitude),
\* a number that is not negative and not below 0.01 * magnitude
C24_EnhanceFloorsMagnitude ==
    /\ en_pc \in {"transformed", "returned"}
           => /\ Len(en_emphasized) = Len(en_audio)
              /\ en_emphasized[1] = 100 * en_audio[1]
              /\ \A n \in 2..Len(en_audio) :
                     en_emphasized[n] = 100 * en_audio[n] - 97 * en_audio[n - 1]
    /\ en_pc = "returned"
           => \A b \in Bins : \A j \in 1..Len(en_magnitude[b]) :
                LET out == en_subtracted[b][j]
                    mag == en_magnitude[b][j]
                    noise == NoiseOf(b)
                IN  /\ ~out.nan
                    /\ out.den > 0
                    /\ out.num >= 0
                    /\ 100 * out.num >= mag * out.den
                    /\ noise.den > 0
                    /\ \/ /\ out.num * noise.den = (mag * noise.den - 2 * noise.num) * out.den
                          /\ 100 * out.num >= mag * out.den
                       \/ /\ 100 * out.num = mag * out.den
                          /\ out.num * noise.den >= (mag * noise.den - 2 * noise.num) * out.den

\* the same for sample rates whose noise window holds at least one frame
EnhanceFloorsMagnitudeWithNoiseFrames == en_sr >= 1024 => C24_EnhanceFloorsMagnitude

====
